---- MODULE Spec2Model ----
(***************************************************************************)
(* Replicate provider of one-hub: the SSE stream handler                   *)
(* (ReplicateStreamHandler.HandlerChatStream), the polling loop            *)
(* (ReplicateProvider.pollResult) and the request translation              *)
(* (convertFromChatOpenai).                                                *)
(*                                                                         *)
(* A line of the SSE transport is a sequence of one-character strings, so  *)
(* that strings.HasPrefix, strings.TrimPrefix and strings.TrimSpace are    *)
(* computed on the characters.  Prompts are TLA+ strings, concatenated     *)
(* with \o as Go concatenates them with +.                                 *)
(***************************************************************************)
EXTENDS Integers, Sequences, FiniteSets, TLC

VARIABLES
    \* ---- ReplicateStreamHandler (chat.go:16-25) and one stream session
    IsEvent,        \* h.IsEvent
    CurrentEvent,   \* h.CurrentEvent
    Buffer,         \* h.Buffer: one "" per pending blank data line
    EventBuffer,    \* h.EventBuffer: the bytes cached for the current event
    Usage,          \* *h.Usage
    rawLine,        \* *rawLine as the handler leaves it: nil or StreamClosed
    line,           \* string(*rawLine) of the call most recently made
    dataChan,       \* everything sent on dataChan so far, in order
    errChan,        \* everything sent on errChan so far, in order
    fetches,        \* calls of getPredictionResponse made so far
    blankRun,       \* history: blank output data lines read in a row just now
    blanksSinceFlush, \* history: blank output data lines read since the last
                    \* output payload (or since the session began)
    payloads,       \* history: non-blank output payloads read so far, in order
    effects,        \* history: the fetches and the sends of the session, in
                    \* the order the handler made them
    fetched,        \* history: the metrics the fetch of the done branch returned
    usageAtDone,    \* history: *h.Usage as the done branch wrote it
    doneRead,       \* history: lines beginning "event: done" read so far
    \* ---- pollResult (part_001:343-387)
    i,              \* the loop counter
    result,         \* var result ReplicateResponse[[]string]
    pollErr,        \* the error returned ("" is nil)
    returned,       \* pollResult has returned
    fetchCalls,     \* calls of client.Do made so far
    reported,       \* history: status responses decoded so far
    \* ---- convertFromChatOpenai (chat.go:65-114)
    request,        \* the caller's *types.ChatCompletionRequest
    replicateRequest, \* the value returned by the most recent call
    calls,          \* calls of convertFromChatOpenai made so far
    argMaxTokens,   \* history: request.MaxTokens as the most recent call found it
    previousRequest, \* history: the value returned by the call before that one
    \* ---- convertToChatOpenai (chat.go:116-152, part_001:67-101)
    responses,      \* the responses returned through the provider, in order
    jobs,           \* history: the terminal job each of them was assembled from
    usageAtReturn,  \* history: the usage each of them carried when returned
    \* ---- the transport and handleChatCompletionStream (part_001:249-291)
    transportErr,   \* the error the transport's read ended with ("" so far none)
    readerPc,       \* where the reader goroutine is ("none": not started, the
                    \* session is read by requester.RequestStream)
    consumerPc,     \* where the consumer loop is
    pendingSends,   \* the chunks the handler call under way has still to send
    dataChanClosed, \* close(dataChan) has been executed
    received,       \* buffer: the chunks the consumer has received, in order
    terminals,      \* history: the terminal signals the consumer has received
    linesRead,      \* history: lines the reader goroutine has read
    \* ---- ChatCompletion (part_001:104-197), CreateChatCompletion (chat.go:27-63)
    chatPc,         \* where the call is: "none", "submit", "polling", "returned"
    creation,       \* history: the outcome of the job-creation call
    chatResp,       \* the response returned: none (the empty set) or one
    chatErr,        \* the error returned (NoError is nil)
    predictions     \* calls of getPrediction made so far

streamVars == <<IsEvent, CurrentEvent, Buffer, EventBuffer, Usage, rawLine, line,
                dataChan, errChan, fetches, blankRun, blanksSinceFlush,
                payloads, effects, fetched, usageAtDone, doneRead>>
pollVars == <<i, result, pollErr, returned, fetchCalls, reported>>
convVars == <<request, replicateRequest, calls, argMaxTokens,
              previousRequest>>
provVars == <<responses, jobs, usageAtReturn>>
readerVars == <<transportErr, readerPc, consumerPc, pendingSends,
                dataChanClosed, received, terminals, linesRead>>
chatVars == <<chatPc, creation, chatResp, chatErr, predictions>>
vars == <<streamVars, pollVars, convVars, provVars, readerVars, chatVars>>

(***************************************************************************)
(* Bounds of the model.                                                    *)
(***************************************************************************)
\* chunks sent on dataChan in one session
MaxChunks == 4
\* pending blank data lines held in h.Buffer
MaxBuffer == 3
\* messages of a request
MaxMessages == 2
\* content parts of a request, all its messages together
MaxParts == 2
\* calls of convertFromChatOpenai on one request
MaxCalls == 2
\* non-streaming requests served through one provider
MaxRequests == 2
\* lines the reader goroutine reads before the transport ends
MaxLines == 3

(***************************************************************************)
(* package strings                                                         *)
(***************************************************************************)
HasPrefix(s, prefix) ==
    Len(s) >= Len(prefix) /\ SubSeq(s, 1, Len(prefix)) = prefix

TrimPrefix(s, prefix) ==
    IF HasPrefix(s, prefix) THEN SubSeq(s, Len(prefix) + 1, Len(s)) ELSE s

\* unicode.IsSpace on the characters the lines of the model are made of
IsSpace(c) == c \in {" ", "\t", "\n", "\r"}

RECURSIVE TrimLeft(_)
TrimLeft(s) ==
    IF Len(s) > 0 /\ IsSpace(Head(s)) THEN TrimLeft(Tail(s)) ELSE s

RECURSIVE TrimRight(_)
TrimRight(s) ==
    IF Len(s) > 0 /\ IsSpace(s[Len(s)])
    THEN TrimRight(SubSeq(s, 1, Len(s) - 1))
    ELSE s

TrimSpace(s) == TrimRight(TrimLeft(s))

RECURSIVE Repeat(_, _)
Repeat(s, count) == IF count <= 0 THEN <<>> ELSE s \o Repeat(s, count - 1)

(***************************************************************************)
(* The lines of the SSE transport.                                         *)
(***************************************************************************)
PrefixEventDone == <<"e","v","e","n","t",":"," ","d","o","n","e">>
PrefixEvent == <<"e","v","e","n","t",":"," ">>
PrefixData == <<"d","a","t","a",":"," ">>
EventOutput == <<"o","u","t","p","u","t">>
EventLogs == <<"l","o","g","s">>

\* The lines a session may read: the terminal event (bare and with a suffix),
\* an output and a non-output event header, blank and whitespace-only data,
\* two payloads (one with leading and trailing blanks), the blank line and a
\* line with no recognized prefix.
Lines ==
    { PrefixEventDone,
      PrefixEventDone \o <<"!">>,
      PrefixEvent \o EventOutput,
      PrefixEvent \o EventLogs,
      PrefixData,
      PrefixData \o <<" ", "\t">>,
      PrefixData \o <<"h","i">>,
      PrefixData \o <<" ","y","o"," ">>,
      <<>>,
      <<"i","d",":"," ","7">> }

\* requester.StreamClosed and the nil slice, as *rawLine holds them
StreamClosed == "StreamClosed"
Nil == "nil"

\* h.ID and h.ModelName of the session
HandlerID == "pred-1"
HandlerModelName == "meta/llama"

\* metrics.input_token_count / output_token_count a status fetch may report
TokenCounts == {0, 12, 34}

\* No job-creation call yet, and the nil error
NoCreation == [Path |-> "", Outcome |-> "", StatusCode |-> 0, Body |-> "", Job |-> {}]
NoError == [Message |-> "", Type |-> "", Code |-> "", StatusCode |-> 0]

\* No metrics yet: the value of the history variable before any fetch
NoMetrics == [InputTokenCount |-> -1, OutputTokenCount |-> -1]

(***************************************************************************)
(* Chunks.                                                                 *)
(***************************************************************************)
FinishReasonStop == "stop"
ChatMessageRoleAssistant == "assistant"

\* types.ChatCompletionStreamChoice with Index 0 and the assistant role; a
\* field the code does not set holds Go's zero value
StreamChoice(content, finishReason) ==
    [Index |-> 0,
     Delta |-> [Role |-> ChatMessageRoleAssistant, Content |-> content],
     FinishReason |-> finishReason]

\* The fields of the marshalled chunk (Created, the wall clock, left out)
getStreamResponse(id, choice, modelName) ==
    [ID |-> id,
     Object |-> "chat.completion.chunk",
     Model |-> modelName,
     Choices |-> <<choice>>]

(***************************************************************************)
(* ReplicateStreamHandler.HandlerChatStream (chat.go:208-320)              *)
(***************************************************************************)
\* Mutant: the payload is sent trimmed of its surrounding blanks
DataContentTrimmed(l) == TrimSpace(TrimPrefix(l, PrefixData))

\* content := strings.TrimPrefix(line, "data: ")
DataContent(l) == TrimPrefix(l, PrefixData)

\* Mutant: the data of a logs event is handled as output too
IsOutputEventOrLogs(event) == event = EventOutput \/ event = EventLogs

\* if h.CurrentEvent == "output"
IsOutputEvent(event) == event = EventOutput

\* Mutant: only an empty payload counts as blank, not a whitespace-only one
IsBlankContentEmptyOnly(content) == Len(content) = 0

\* len(strings.TrimSpace(content)) == 0
IsBlankContent(content) == Len(TrimSpace(content)) = 0

\* The chunk carrying newlineCount newline characters
NewlineChunk(newlineCount) ==
    getStreamResponse(HandlerID,
                      StreamChoice(Repeat(<<"\n">>, newlineCount), ""),
                      HandlerModelName)

\* The chunk carrying a payload
ContentChunk(content) ==
    getStreamResponse(HandlerID, StreamChoice(content, ""), HandlerModelName)

\* The terminal chunk: no content, finish reason stop
StopChunk ==
    getStreamResponse(HandlerID, StreamChoice(<<>>, FinishReasonStop),
                      HandlerModelName)

\* Mutant: the done branch sends one newline chunk per pending blank line
FlushOnDonePerBlank(buffer) ==
    [k \in 1..Len(buffer) |-> NewlineChunk(1)]

\* What the done branch sends for the pending blank lines
FlushOnDone(buffer) ==
    IF Len(buffer) > 0
    THEN LET newlineCount == Len(buffer) - 1
         IN  IF newlineCount > 0 THEN <<NewlineChunk(newlineCount)>> ELSE <<>>
    ELSE <<>>

\* Mutant: one newline per pending blank line, not one fewer
FlushOnContentOffByOne(buffer) ==
    IF Len(buffer) > 0 THEN <<NewlineChunk(Len(buffer))>> ELSE <<>>

\* What the data branch sends for the pending blank lines before a payload
FlushOnContent(buffer) ==
    IF Len(buffer) > 0
    THEN LET newlineCount == Len(buffer) - 1
         IN  IF newlineCount > 0 THEN <<NewlineChunk(newlineCount)>> ELSE <<>>
    ELSE <<>>

\* Mutant: the flush leaves the pending blank lines in h.Buffer
FlushedBufferKept(buffer) == buffer

\* h.Buffer after either flush: nil when it held anything
FlushedBuffer(buffer) == IF Len(buffer) > 0 THEN <<>> ELSE buffer

\* Mutant: the done branch leaves nil in *rawLine, as every other branch does
DoneRawLineNil == Nil

\* *rawLine = requester.StreamClosed
DoneRawLine == StreamClosed

\* Mutant: the total is left out
UsageOfNoTotal(metrics) ==
    [PromptTokens |-> metrics.InputTokenCount,
     CompletionTokens |-> metrics.OutputTokenCount,
     TotalTokens |-> 0]

\* The usage record written from the fetched metrics
UsageOf(metrics) ==
    [PromptTokens |-> metrics.InputTokenCount,
     CompletionTokens |-> metrics.OutputTokenCount,
     TotalTokens |-> metrics.InputTokenCount + metrics.OutputTokenCount]

\* Mutant: the status fetch is made after the terminal chunk has been sent
DoneEffectsFetchLast(flushed) ==
    [k \in 1..Len(flushed) |-> "newline"] \o <<"stop", "fetch", "EOF">>

\* The fetch and the sends of the done branch, in the order of its
\* statements: getPredictionResponse, the flush, the stop chunk, io.EOF
DoneEffects(flushed) ==
    <<"fetch">> \o [k \in 1..Len(flushed) |-> "newline"] \o <<"stop", "EOF">>

\* if strings.HasPrefix(line, "event: done") { ... return }
HandleDone ==
    \E in \in TokenCounts, out \in TokenCounts :
        /\ fetches' = fetches + 1
        /\ fetched' = [InputTokenCount |-> in, OutputTokenCount |-> out]
        /\ Usage' = UsageOf(fetched')
        /\ usageAtDone' = Usage'
        /\ dataChan' = dataChan \o FlushOnDone(Buffer) \o <<StopChunk>>
        /\ effects' = effects \o DoneEffects(FlushOnDone(Buffer))
        /\ Buffer' = FlushedBuffer(Buffer)
        /\ errChan' = Append(errChan, "EOF")
        /\ rawLine' = DoneRawLine
        /\ UNCHANGED <<IsEvent, CurrentEvent, EventBuffer>>

\* Mutant: the whole header line is kept as the event name
EventNameUntrimmed(l) == l

\* h.CurrentEvent = strings.TrimPrefix(line, "event: ")
EventName(l) == TrimPrefix(l, PrefixEvent)

\* if strings.HasPrefix(line, "event: ") { ... h.EventBuffer.Reset() ... return }
HandleEvent(l) ==
    /\ IsEvent' = TRUE
    /\ CurrentEvent' = EventName(l)
    /\ EventBuffer' = <<>>
    /\ rawLine' = Nil
    /\ UNCHANGED <<Buffer, Usage, dataChan, errChan, fetches, effects, fetched,
                   usageAtDone>>

\* if !strings.HasPrefix(line, "data: ") && !h.IsEvent { *rawLine = nil; return }
HandleSkip ==
    /\ rawLine' = Nil
    /\ UNCHANGED <<IsEvent, CurrentEvent, Buffer, EventBuffer, Usage, dataChan,
                   errChan, fetches, effects, fetched, usageAtDone>>

\* A blank data line of an output event: h.Buffer = append(h.Buffer, ""); return
HandleBlankData ==
    /\ Buffer' = Append(Buffer, "")
    /\ rawLine' = Nil
    /\ UNCHANGED <<IsEvent, CurrentEvent, EventBuffer, Usage, dataChan, errChan,
                   fetches, effects, fetched, usageAtDone>>

\* Mutant: a blank line does not end the event
EndsEventNever(l) == FALSE

\* if len(strings.TrimSpace(line)) == 0 && h.IsEvent
EndsEvent(l) == Len(TrimSpace(l)) = 0 /\ IsEvent

\* The rest of the function: a payload of an output event is sent after the
\* pending blank lines, then a blank line ends the event, then *rawLine = nil
HandleRest(l) ==
    LET sends == HasPrefix(l, PrefixData) /\ IsOutputEvent(CurrentEvent)
        ends == EndsEvent(l)
    IN  /\ dataChan' = IF sends
                       THEN dataChan \o FlushOnContent(Buffer)
                                     \o <<ContentChunk(DataContent(l))>>
                       ELSE dataChan
        /\ effects' = IF sends
                      THEN effects
                           \o [k \in 1..Len(FlushOnContent(Buffer)) |-> "newline"]
                           \o <<"content">>
                      ELSE effects
        /\ Buffer' = IF sends THEN FlushedBuffer(Buffer) ELSE Buffer
        /\ IsEvent' = IF ends THEN FALSE ELSE IsEvent
        /\ CurrentEvent' = IF ends THEN <<>> ELSE CurrentEvent
        /\ rawLine' = Nil
        /\ UNCHANGED <<EventBuffer, Usage, errChan, fetches, fetched,
                       usageAtDone>>

HandlerChatStream(l) ==
    /\ line' = l
    /\ IF HasPrefix(l, PrefixEventDone) THEN HandleDone
       ELSE IF HasPrefix(l, PrefixEvent) THEN HandleEvent(l)
       ELSE IF ~HasPrefix(l, PrefixData) /\ ~IsEvent THEN HandleSkip
       ELSE IF /\ HasPrefix(l, PrefixData)
               /\ IsOutputEvent(CurrentEvent)
               /\ IsBlankContent(DataContent(l))
            THEN HandleBlankData
       ELSE HandleRest(l)

(***************************************************************************)
(* requester.RequestStream: the loop that reads the transport and hands    *)
(* each line to the handler until the handler leaves StreamClosed in       *)
(* *rawLine.  The history variables are kept here, beside the handler.     *)
(***************************************************************************)
\* A data line read while the current event is output, blank or not
IsBlankMarker(l) ==
    /\ HasPrefix(l, PrefixData)
    /\ CurrentEvent = EventOutput
    /\ \A k \in 1..Len(DataContent(l)) : IsSpace(DataContent(l)[k])

IsOutputPayload(l) ==
    /\ HasPrefix(l, PrefixData)
    /\ CurrentEvent = EventOutput
    /\ \E k \in 1..Len(DataContent(l)) : ~IsSpace(DataContent(l)[k])

\* One pass of the loop: a line is read and handed to the handler
ReadLine(l) ==
    /\ rawLine # StreamClosed
    /\ HandlerChatStream(l)
    /\ blankRun' = IF IsBlankMarker(l) THEN blankRun + 1 ELSE 0
    /\ blanksSinceFlush' = IF IsBlankMarker(l) THEN blanksSinceFlush + 1
                           ELSE IF IsOutputPayload(l) THEN 0
                           ELSE blanksSinceFlush
    /\ payloads' = IF IsOutputPayload(l)
                   THEN Append(payloads, SubSeq(l, 7, Len(l)))
                   ELSE payloads
    /\ doneRead' = IF HasPrefix(l, PrefixEventDone)
                   THEN doneRead + 1
                   ELSE doneRead
    /\ Len(dataChan') <= MaxChunks
    /\ Len(Buffer') <= MaxBuffer

RequestStream ==
    /\ \E l \in Lines : ReadLine(l)
    /\ UNCHANGED <<pollVars, convVars, provVars, readerVars, chatVars>>

ZeroUsage == [PromptTokens |-> 0, CompletionTokens |-> 0, TotalTokens |-> 0]

\* The session as CreateChatCompletionStream builds it; no poll and no
\* translation are under way
InitStream ==
    \* the handler and its channels
    /\ IsEvent = FALSE
    /\ CurrentEvent = <<>>
    /\ Buffer = <<>>
    /\ EventBuffer = <<>>
    /\ Usage = ZeroUsage
    /\ rawLine = Nil
    /\ line = <<>>
    /\ dataChan = <<>>
    /\ errChan = <<>>
    /\ fetches = 0
    /\ blankRun = 0
    /\ blanksSinceFlush = 0
    /\ payloads = <<>>
    /\ effects = <<>>
    /\ fetched = NoMetrics
    /\ usageAtDone = ZeroUsage
    /\ doneRead = 0
    \* pollResult, not called
    /\ i = 0
    /\ result = [Status |-> "", Error |-> ""]
    /\ pollErr = ""
    /\ returned = FALSE
    /\ fetchCalls = 0
    /\ reported = 0
    \* convertFromChatOpenai, not called
    /\ request = [MaxTokens |-> 0, MaxCompletionTokens |-> 0, Messages |-> <<>>]
    /\ replicateRequest = "none"
    /\ calls = 0
    /\ argMaxTokens = 0
    /\ previousRequest = "none"
    \* no response assembled
    /\ responses = <<>>
    /\ jobs = <<>>
    /\ usageAtReturn = <<>>
    \* handleChatCompletionStream, not called
    /\ transportErr = ""
    /\ readerPc = "none"
    /\ consumerPc = "none"
    /\ pendingSends = <<>>
    /\ dataChanClosed = FALSE
    /\ received = <<>>
    /\ terminals = <<>>
    /\ linesRead = 0
    \* ChatCompletion and CreateChatCompletion, not called
    /\ chatPc = "none"
    /\ creation = NoCreation
    /\ chatResp = {}
    /\ chatErr = NoError
    /\ predictions = 0

NextStream == RequestStream

SpecStream == InitStream /\ [][NextStream]_vars

(***************************************************************************)
(* Claims on the stream handler, checked under SpecStream.                 *)
(***************************************************************************)
PayloadOf(l) == SubSeq(l, Len(PrefixData) + 1, Len(l))

\* C1 as stated: N counts the blank data lines read IN A ROW just before the
\* payload.  No chunk is sent for a blank line, and a payload read after a run
\* of N >= 2 blank lines is preceded by exactly one chunk of N-1 newlines.
C1_ConsecutiveLines ==
    [][ /\ IsBlankMarker(line') => dataChan' = dataChan
        /\ (IsOutputPayload(line') /\ blankRun >= 2) =>
              dataChan' = dataChan \o <<NewlineChunk(blankRun - 1),
                                        ContentChunk(PayloadOf(line'))>>
      ]_vars

\* C1 (amended): N counts the blank data lines read in output events since
\* the last non-blank output payload (or since the session began), whether or
\* not other lines were read between them.  No chunk is sent for a blank
\* line, and for N >= 2 the payload is preceded by exactly one chunk of N-1
\* newlines.
C1_PendingMarkers ==
    [][ /\ IsBlankMarker(line') => dataChan' = dataChan
        /\ (IsOutputPayload(line') /\ blanksSinceFlush >= 2) =>
              dataChan' = dataChan \o <<NewlineChunk(blanksSinceFlush - 1),
                                        ContentChunk(PayloadOf(line'))>>
      ]_vars

\* Three blank data lines in a row, then "data: hi": a chunk of two newlines,
\* then the chunk "hi"
C1_Witness ==
    /\ line = PrefixData \o <<"h","i">>
    /\ dataChan = <<NewlineChunk(2), ContentChunk(<<"h","i">>)>>
    /\ payloads = <<<<"h","i">>>>

StopCount(chunks) ==
    Cardinality({k \in 1..Len(chunks) : chunks[k].Choices[1].FinishReason = FinishReasonStop})

\* C2: a line beginning "event: done" sends at most one newline chunk for the
\* pending blank lines, then one chunk with finish reason stop and no
\* content, which is the only such chunk and the last chunk of the stream,
\* then io.EOF on errChan, and closes the session; whatever the event state
\* and the pending blank lines.
C2_DoneTerminates ==
    [][ HasPrefix(line', PrefixEventDone) =>
          /\ \/ dataChan' = Append(dataChan, StopChunk)
             \/ \E n \in 1..Len(Buffer) :
                    dataChan' = dataChan \o <<NewlineChunk(n), StopChunk>>
          /\ StopCount(dataChan') = 1
          /\ dataChan'[Len(dataChan')].Choices[1].Delta.Content = <<>>
          /\ errChan' = <<"EOF">>
          /\ rawLine' = StreamClosed
      ]_vars

\* "event: done" read outside any event with two blank lines pending
C2_Witness ==
    /\ HasPrefix(line, PrefixEventDone)
    /\ ~IsEvent
    /\ Len(dataChan) >= 2
    /\ dataChan[Len(dataChan) - 1] = NewlineChunk(1)
    /\ dataChan[Len(dataChan)] = StopChunk
    /\ errChan = <<"EOF">>

\* C3: once the terminal chunk has been sent nothing changes any more: no
\* chunk, no signal, no fetch, and the event state, the pending blank lines
\* and the usage record stay as they are.
C3_ClosedAfterDone ==
    [][ StopCount(dataChan) > 0 =>
          UNCHANGED <<dataChan, errChan, fetches, IsEvent, CurrentEvent,
                      Buffer, Usage>>
      ]_vars

\* The session closed inside a logs event, with usage written
C3_Witness ==
    /\ rawLine = StreamClosed
    /\ StopCount(dataChan) = 1
    /\ CurrentEvent = EventLogs
    /\ Usage.TotalTokens = 46

\* A chunk that carries text: content that is not newlines only
IsTextChunk(chunk) ==
    \E k \in 1..Len(chunk.Choices[1].Delta.Content) :
        chunk.Choices[1].Delta.Content[k] # "\n"

RECURSIVE TextOf(_)
TextOf(chunks) ==
    IF chunks = <<>> THEN <<>>
    ELSE IF IsTextChunk(Head(chunks))
         THEN <<Head(chunks).Choices[1].Delta.Content>> \o TextOf(Tail(chunks))
         ELSE TextOf(Tail(chunks))

\* C4: the text-bearing chunks are, in order and unmodified, the non-blank
\* payloads read while the current event was output, and the chunk with
\* finish reason stop comes after all of them.
C4_Ordering ==
    /\ TextOf(dataChan) = payloads
    /\ \A k \in 1..Len(dataChan) :
          dataChan[k].Choices[1].FinishReason = FinishReasonStop
              => k = Len(dataChan)

\* Two different payloads, then the terminal chunk
C4_Witness ==
    /\ payloads = << <<" ","y","o"," ">>, <<"h","i">> >>
    /\ Len(dataChan) = 3
    /\ dataChan[3] = StopChunk

\* The entries of a log that are the given effect
CountOf(log, effect) == Cardinality({k \in 1..Len(log) : log[k] = effect})

\* C17: the status fetch is made once in a session in which a line beginning
\* "event: done" is read and not at all in any other, never a second time;
\* and it is made before the terminal chunk is sent.
C17_SingleFetch ==
    /\ fetches = IF doneRead > 0 THEN 1 ELSE 0
    /\ CountOf(effects, "fetch") = fetches
    /\ \A k \in 1..Len(effects) :
          effects[k] = "stop" => \E j \in 1..(k - 1) : effects[j] = "fetch"

\* A payload, two blank lines, then "event: done": the fetch comes after the
\* payload's chunk and before the flush and the terminal chunk
C17_Witness ==
    /\ doneRead = 1
    /\ fetches = 1
    /\ effects = <<"content", "fetch", "newline", "stop", "EOF">>
    /\ Usage.TotalTokens = 46

\* C19: a line beginning "event: " that is not the terminal event makes the
\* handler in-event with the rest of the line as the current event, leaves
\* the event buffer empty and sends nothing.
C19_EventHeader ==
    [][ (HasPrefix(line', PrefixEvent) /\ ~HasPrefix(line', PrefixEventDone)) =>
          /\ IsEvent' = TRUE
          /\ CurrentEvent' = SubSeq(line', Len(PrefixEvent) + 1, Len(line'))
          /\ EventBuffer' = <<>>
          /\ dataChan' = dataChan
          /\ errChan' = errChan
          /\ fetches' = fetches
      ]_vars

\* The header of a logs event read after an output event that left one blank
\* line pending
C19_Witness ==
    /\ line = PrefixEvent \o EventLogs
    /\ IsEvent
    /\ CurrentEvent = EventLogs
    /\ Len(Buffer) = 1
    /\ dataChan = <<>>

\* C20: a blank line read while an event is active makes the handler idle
\* with no current event and sends nothing; and a data line read while the
\* handler is idle sends nothing and leaves it idle, whatever the event that
\* ended.
C20_EndOfEvent ==
    [][ /\ (IsEvent /\ Len(TrimSpace(line')) = 0) =>
              /\ IsEvent' = FALSE
              /\ CurrentEvent' = <<>>
              /\ dataChan' = dataChan
              /\ errChan' = errChan
        /\ (~IsEvent /\ HasPrefix(line', PrefixData)) =>
              /\ IsEvent' = FALSE
              /\ dataChan' = dataChan
              /\ errChan' = errChan
              /\ Buffer' = Buffer
      ]_vars

\* "data: hi" read after an output event that buffered one blank line was
\* ended by a blank line: nothing is sent
C20_Witness ==
    /\ line = PrefixData \o <<"h","i">>
    /\ ~IsEvent
    /\ CurrentEvent = <<>>
    /\ Len(Buffer) = 1
    /\ payloads = <<>>
    /\ dataChan = <<>>

\* A line with no recognized prefix that is not blank
IsUnrecognized(l) ==
    /\ ~HasPrefix(l, PrefixEvent)
    /\ ~HasPrefix(l, PrefixData)
    /\ \E k \in 1..Len(l) : ~IsSpace(l[k])

\* C21: a data line read while the current event is not output, and a
\* non-blank line with no recognized prefix, send nothing and leave the
\* current event, the pending blank lines and the usage record as they are.
C21_IgnoredLines ==
    [][ ((HasPrefix(line', PrefixData) /\ CurrentEvent # EventOutput)
            \/ IsUnrecognized(line')) =>
          /\ dataChan' = dataChan
          /\ errChan' = errChan
          /\ CurrentEvent' = CurrentEvent
          /\ Buffer' = Buffer
          /\ Usage' = Usage
      ]_vars

\* "data: hi" read in a logs event, with one blank line pending and a
\* payload sent before: nothing more is sent
C21_Witness ==
    /\ line = PrefixData \o <<"h","i">>
    /\ CurrentEvent = EventLogs
    /\ Len(Buffer) = 1
    /\ dataChan = <<ContentChunk(<<" ","y","o"," ">>)>>
    /\ payloads = << <<" ","y","o"," ">> >>

\* C25: in the done step the flush chunk is sent before the status fetch,
\* and the terminal chunk after it: no newline chunk follows the fetch.
C25_FlushBeforeFetch ==
    \A k \in 1..Len(effects) :
        effects[k] = "fetch" =>
            /\ \A j \in (k + 1)..Len(effects) : effects[j] # "newline"
            /\ \E j \in (k + 1)..Len(effects) : effects[j] = "stop"

\* C26: a line that does not begin "event: done" leaves the usage record as
\* it is; a line that does writes the fetched input and output counts and
\* their sum.
C26_UsageOnlyAtDone ==
    [][ /\ ~HasPrefix(line', PrefixEventDone) => Usage' = Usage
        /\ HasPrefix(line', PrefixEventDone) =>
              /\ fetched' \in [InputTokenCount : TokenCounts,
                               OutputTokenCount : TokenCounts]
              /\ Usage'.PromptTokens = fetched'.InputTokenCount
              /\ Usage'.CompletionTokens = fetched'.OutputTokenCount
              /\ Usage'.TotalTokens =
                     fetched'.InputTokenCount + fetched'.OutputTokenCount
      ]_vars

\* Two payloads sent with the usage still zero, then the done step wrote
\* 34 + 12
C26_Witness ==
    /\ doneRead = 1
    /\ Len(payloads) = 2
    /\ fetched = [InputTokenCount |-> 34, OutputTokenCount |-> 12]
    /\ Usage = [PromptTokens |-> 34, CompletionTokens |-> 12, TotalTokens |-> 46]

\* C27: with exactly one blank line pending, a non-blank output payload
\* sends the payload chunk only and "event: done" the terminal chunk only,
\* and no blank line is pending afterwards.
C27_LoneBlankMarker ==
    [][ Len(Buffer) = 1 =>
          /\ IsOutputPayload(line') =>
                /\ dataChan' = Append(dataChan, ContentChunk(PayloadOf(line')))
                /\ Buffer' = <<>>
          /\ HasPrefix(line', PrefixEventDone) =>
                /\ dataChan' = Append(dataChan, StopChunk)
                /\ Buffer' = <<>>
      ]_vars

\* A payload, one blank line, then "event: done": the payload's chunk and
\* the terminal chunk, nothing pending
C27_Witness ==
    /\ doneRead = 1
    /\ blanksSinceFlush = 1
    /\ payloads = << <<"h","i">> >>
    /\ dataChan = <<ContentChunk(<<"h","i">>), StopChunk>>
    /\ Buffer = <<>>

\* C28: an event header and a blank line leave the pending blank lines as
\* they are; they are as many as the blank output data lines read since the
\* last flush, whatever the events they came in; they are cleared only by a
\* non-blank output payload or "event: done", and "event: done" with k >= 2
\* of them pending sends one chunk of k-1 newlines before the terminal chunk.
C28_PendingSurvives ==
    [][ /\ ((HasPrefix(line', PrefixEvent) /\ ~HasPrefix(line', PrefixEventDone))
                \/ Len(TrimSpace(line')) = 0) => Buffer' = Buffer
        /\ Len(Buffer) = blanksSinceFlush
        /\ Buffer' # Buffer =>
              \/ IsBlankMarker(line') /\ Buffer' = Append(Buffer, "")
              \/ (IsOutputPayload(line') \/ HasPrefix(line', PrefixEventDone))
                    /\ Buffer' = <<>>
        /\ (HasPrefix(line', PrefixEventDone) /\ blanksSinceFlush >= 2) =>
              dataChan' = dataChan \o <<NewlineChunk(blanksSinceFlush - 1),
                                        StopChunk>>
      ]_vars

\* The header of an output event read with two blank lines pending from
\* before it: both are still pending
C28_Witness ==
    /\ line = PrefixEvent \o EventOutput
    /\ IsEvent
    /\ Len(Buffer) = 2
    /\ blankRun = 0
    /\ dataChan = <<>>

(***************************************************************************)
(* ReplicateProvider.pollResult (part_001:343-387)                         *)
(***************************************************************************)
\* maxAttempts := 30
maxAttempts == 30

\* The status and the error text a decoded status response may carry
Statuses == {"starting", "processing", "succeeded", "failed", "canceled"}
ErrorTexts == {"", "out of memory"}

\* Mutant: the loop runs while i <= maxAttempts
LoopCondInclusive(n) == n <= maxAttempts

\* for i := 0; i < maxAttempts; i++
LoopCond(n) == n < maxAttempts

\* Mutant: the success status is misspelt and never matches
IsSucceededNever(status) == status = "success"

\* if result.Status == "succeeded"
IsSucceeded(status) == status = "succeeded"

\* Mutant: a canceled job is not taken as failed
IsFailedOnly(status) == status = "failed"

\* else if result.Status == "failed" || result.Status == "canceled"
IsFailedOrCanceled(status) == status = "failed" \/ status = "canceled"

\* fmt.Errorf("prediction failed or canceled: %s", result.Error)
PredictionFailedError(res) == "prediction failed or canceled: " \o res.Error

\* fmt.Errorf("polling timeout after %d attempts", maxAttempts)
PollingTimeoutError ==
    "polling timeout after " \o ToString(maxAttempts) \o " attempts"

\* One pass of the loop body: build the request, send it, decode the
\* response into result, test the status, sleep
PollFetch ==
    /\ ~returned
    /\ LoopCond(i)
    /\ \/ \* http.NewRequest fails: return result, err
          /\ returned' = TRUE
          /\ pollErr' = "http.NewRequest error"
          /\ UNCHANGED <<i, result, fetchCalls, reported>>
       \/ \* client.Do fails: return result, err
          /\ fetchCalls' = fetchCalls + 1
          /\ returned' = TRUE
          /\ pollErr' = "client.Do error"
          /\ UNCHANGED <<i, result, reported>>
       \/ \* Decode fails: return result, err
          /\ fetchCalls' = fetchCalls + 1
          /\ returned' = TRUE
          /\ pollErr' = "json decode error"
          /\ UNCHANGED <<i, result, reported>>
       \/ \* the response is decoded into result
          \E status \in Statuses, error \in ErrorTexts :
            /\ fetchCalls' = fetchCalls + 1
            /\ reported' = reported + 1
            /\ result' = [Status |-> status, Error |-> error]
            /\ IF IsSucceeded(status)
               THEN /\ returned' = TRUE
                    /\ pollErr' = ""
                    /\ i' = i
               ELSE IF IsFailedOrCanceled(status)
               THEN /\ returned' = TRUE
                    /\ pollErr' = PredictionFailedError(result')
                    /\ i' = i
               ELSE \* time.Sleep(1 * time.Second); i++
                    /\ returned' = FALSE
                    /\ pollErr' = pollErr
                    /\ i' = i + 1
    /\ UNCHANGED <<streamVars, convVars, provVars, readerVars, chatVars>>

\* The loop ends: return result, fmt.Errorf("polling timeout ...")
PollTimeout ==
    /\ ~returned
    /\ ~LoopCond(i)
    /\ returned' = TRUE
    /\ pollErr' = PollingTimeoutError
    /\ UNCHANGED <<i, result, fetchCalls, reported>>
    /\ UNCHANGED <<streamVars, convVars, provVars, readerVars, chatVars>>

\* pollResult entered: var result, i := 0; no stream session and no
\* translation are under way
InitPoll ==
    /\ i = 0
    /\ result = [Status |-> "", Error |-> ""]
    /\ pollErr = ""
    /\ returned = FALSE
    /\ fetchCalls = 0
    /\ reported = 0
    \* the stream handler, not running
    /\ IsEvent = FALSE
    /\ CurrentEvent = <<>>
    /\ Buffer = <<>>
    /\ EventBuffer = <<>>
    /\ Usage = ZeroUsage
    /\ rawLine = Nil
    /\ line = <<>>
    /\ dataChan = <<>>
    /\ errChan = <<>>
    /\ fetches = 0
    /\ blankRun = 0
    /\ blanksSinceFlush = 0
    /\ payloads = <<>>
    /\ effects = <<>>
    /\ fetched = NoMetrics
    /\ usageAtDone = ZeroUsage
    /\ doneRead = 0
    \* convertFromChatOpenai, not called
    /\ request = [MaxTokens |-> 0, MaxCompletionTokens |-> 0, Messages |-> <<>>]
    /\ replicateRequest = "none"
    /\ calls = 0
    /\ argMaxTokens = 0
    /\ previousRequest = "none"
    \* no response assembled
    /\ responses = <<>>
    /\ jobs = <<>>
    /\ usageAtReturn = <<>>
    \* handleChatCompletionStream, not called
    /\ transportErr = ""
    /\ readerPc = "none"
    /\ consumerPc = "none"
    /\ pendingSends = <<>>
    /\ dataChanClosed = FALSE
    /\ received = <<>>
    /\ terminals = <<>>
    /\ linesRead = 0
    \* ChatCompletion and CreateChatCompletion, not called
    /\ chatPc = "none"
    /\ creation = NoCreation
    /\ chatResp = {}
    /\ chatErr = NoError
    /\ predictions = 0

NextPoll == PollFetch \/ PollTimeout

SpecPoll == InitPoll /\ [][NextPoll]_vars

\* Every pass of the loop ends: the HTTP call returns and the sleep is one second
FairSpecPoll == SpecPoll /\ WF_vars(NextPoll)

(***************************************************************************)
(* Claims on pollResult.                                                   *)
(***************************************************************************)
NonTerminal == {"starting", "processing"}

\* C5: when the k-th status response (1 <= k <= 30), after k-1 non-terminal
\* ones, reports succeeded, pollResult returns the succeeded job with no
\* error, exactly k fetch calls have been made, and none is made afterwards.
C5_PollSuccess ==
    [][ /\ (~returned /\ reported' = reported + 1
                     /\ result'.Status = "succeeded") =>
              /\ returned'
              /\ pollErr' = ""
              /\ reported' = i + 1
              /\ fetchCalls' = reported'
              /\ reported' \in 1..30
        /\ returned => (returned' /\ fetchCalls' = fetchCalls
                                  /\ result' = result /\ pollErr' = pollErr)
      ]_vars

\* Succeeded on the 30th fetch, the last the ceiling allows
C5_Witness ==
    /\ returned
    /\ pollErr = ""
    /\ result.Status = "succeeded"
    /\ fetchCalls = 30
    /\ i = 29

\* C6: the timeout error is returned after exactly 30 fetch calls, never
\* fewer and never more; 30 non-terminal responses lead to it; and
\* pollResult always returns.
C6_PollTimeout ==
    /\ [](pollErr = "polling timeout after 30 attempts" =>
             (returned /\ fetchCalls = 30 /\ reported = 30
                       /\ result.Status \in NonTerminal))
    /\ [](fetchCalls <= 30)
    /\ ((reported = 30 /\ result.Status \in NonTerminal)
            ~> (returned /\ pollErr = "polling timeout after 30 attempts"))
    /\ <>returned

\* Thirty fetches, all non-terminal, then the timeout
C6_Witness ==
    /\ returned
    /\ pollErr = "polling timeout after 30 attempts"
    /\ fetchCalls = 30
    /\ result.Status = "processing"

\* C7: a status response reporting failed or canceled makes pollResult
\* return at that fetch with the prediction-failed error carrying the
\* response's error text (not the timeout, not success), and no fetch follows.
C7_PollFailure ==
    [][ /\ (~returned /\ reported' = reported + 1
                     /\ result'.Status \in {"failed", "canceled"}) =>
              /\ returned'
              /\ pollErr' = "prediction failed or canceled: " \o result'.Error
              /\ pollErr' # ""
              /\ pollErr' # "polling timeout after 30 attempts"
              /\ fetchCalls' = fetchCalls + 1
        /\ (returned /\ result.Status \in {"failed", "canceled"}) =>
              (returned' /\ fetchCalls' = fetchCalls /\ pollErr' = pollErr)
      ]_vars

\* Canceled on the third fetch with the backend's error text
C7_Witness ==
    /\ returned
    /\ result = [Status |-> "canceled", Error |-> "out of memory"]
    /\ pollErr = "prediction failed or canceled: out of memory"
    /\ fetchCalls = 3

(***************************************************************************)
(* convertFromChatOpenai (chat.go:65-114)                                  *)
(***************************************************************************)
ContentTypeText == "text"
ContentTypeImageURL == "image_url"

Roles == {"system", "user", "assistant"}

\* The content parts a message may hold: two texts, two image references
PartValues ==
    { [Type |-> ContentTypeText, Text |-> "a", URL |-> ""],
      [Type |-> ContentTypeText, Text |-> "b", URL |-> ""],
      [Type |-> ContentTypeImageURL, Text |-> "", URL |-> "img1"],
      [Type |-> ContentTypeImageURL, Text |-> "", URL |-> "img2"] }

\* The messages of exactly k parts
MessagesOf(k) == [Role : Roles, Content : [1..k -> PartValues]]

\* The message sequences of at most n messages and at most budget parts
RECURSIVE MessageSeqs(_, _)
MessageSeqs(n, budget) ==
    IF n = 0 THEN {<<>>}
    ELSE {<<>>} \cup
         UNION { UNION { { <<m>> \o rest : rest \in MessageSeqs(n - 1, budget - k) }
                         : m \in MessagesOf(k) }
                 : k \in 0..budget }

\* request.MaxTokens and request.MaxCompletionTokens of the caller
MaxTokensValues == {-1, 0, 1023, 1024, 4096}
MaxCompletionTokensValues == {-1, 0, 512, 2048}

\* msg.ParseContent(): the content parts of the message, in order
ParseContent(msg) == msg.Content

\* msg.StringContent(): the text of the message, its text parts concatenated
RECURSIVE JoinText(_)
JoinText(parts) ==
    IF parts = <<>> THEN ""
    ELSE (IF Head(parts).Type = ContentTypeText THEN Head(parts).Text ELSE "")
         \o JoinText(Tail(parts))

StringContent(msg) == JoinText(msg.Content)

\* Mutant: a value below the floor is raised by 1024, not to 1024
FlooredByAdding(maxTokens) ==
    IF maxTokens < 1024 THEN maxTokens + 1024 ELSE maxTokens

\* Mutant: the floor is applied only to a value that is not positive
FlooredPositiveOnly(maxTokens) == IF maxTokens <= 0 THEN 1024 ELSE maxTokens

\* if request.MaxTokens < 1024 { request.MaxTokens = 1024 }
Floored(maxTokens) == IF maxTokens < 1024 THEN 1024 ELSE maxTokens

\* Mutant: the alias replaces the primary field whenever the alias is set
WithAliasAlways(req) ==
    IF req.MaxCompletionTokens > 0 THEN req.MaxCompletionTokens
    ELSE req.MaxTokens

\* if request.MaxTokens == 0 && request.MaxCompletionTokens > 0 {
\*     request.MaxTokens = request.MaxCompletionTokens }
WithAlias(req) ==
    IF req.MaxTokens = 0 /\ req.MaxCompletionTokens > 0
    THEN req.MaxCompletionTokens
    ELSE req.MaxTokens

\* Mutant: the role is followed by a colon and a blank, with no line break
RoleHeaderNoBreak(role) == role \o ": "

\* prompt += msg.Role + ": \n"
RoleHeader(role) == role \o ": \n"

\* The inner loop over one message's parts: text is appended to the prompt,
\* an image reference overwrites imageUrl
RECURSIVE ScanParts(_, _)
ScanParts(parts, acc) ==
    IF parts = <<>> THEN acc
    ELSE LET content == Head(parts)
         IN  ScanParts(Tail(parts),
                 IF content.Type = ContentTypeText
                 THEN [acc EXCEPT !.prompt = @ \o content.Text]
                 ELSE IF content.Type = ContentTypeImageURL
                 THEN [acc EXCEPT !.imageUrl = content.URL]
                 ELSE acc)

\* for _, msg := range request.Messages { ... }
RECURSIVE ScanMessages(_, _)
ScanMessages(messages, acc) ==
    IF messages = <<>> THEN acc
    ELSE LET msg == Head(messages)
         IN  IF msg.Role = "system"
             THEN ScanMessages(Tail(messages),
                      [acc EXCEPT !.systemPrompt = @ \o StringContent(msg) \o "\n"])
             ELSE LET start == [acc EXCEPT !.prompt = @ \o RoleHeader(msg.Role)]
                      scanned == ScanParts(ParseContent(msg), start)
                  IN  ScanMessages(Tail(messages),
                          [scanned EXCEPT !.prompt = @ \o "\n"])

\* The value returned for a request whose MaxTokens has been resolved
ReplicateRequestOf(req) ==
    LET scan == ScanMessages(req.Messages,
                    [systemPrompt |-> "", prompt |-> "", imageUrl |-> ""])
    IN  [Stream |-> req.Stream,
         Input |-> [TopP |-> req.TopP,
                    MaxTokens |-> req.MaxTokens,
                    MinTokens |-> 0,
                    Temperature |-> req.Temperature,
                    SystemPrompt |-> scan.systemPrompt,
                    Prompt |-> scan.prompt \o "assistant: \n",
                    PresencePenalty |-> req.PresencePenalty,
                    FrequencyPenalty |-> req.FrequencyPenalty,
                    Image |-> scan.imageUrl]]

\* One call: the request's MaxTokens is overwritten through the pointer
convertFromChatOpenai ==
    /\ calls < MaxCalls
    /\ request' = [request EXCEPT !.MaxTokens = Floored(WithAlias(request))]
    /\ replicateRequest' = ReplicateRequestOf(request')
    /\ calls' = calls + 1
    /\ argMaxTokens' = request.MaxTokens
    /\ previousRequest' = replicateRequest
    /\ UNCHANGED <<streamVars, pollVars, provVars, readerVars, chatVars>>

\* The requests a caller may hand over
Requests ==
    [MaxTokens : MaxTokensValues,
     MaxCompletionTokens : MaxCompletionTokensValues,
     Messages : MessageSeqs(MaxMessages, MaxParts),
     Stream : {FALSE},
     TopP : {"top_p"},
     Temperature : {"temperature"},
     PresencePenalty : {"presence_penalty"},
     FrequencyPenalty : {"frequency_penalty"}]

\* A request handed over by the caller; no stream session and no poll are
\* under way
InitConv ==
    /\ request \in Requests
    /\ replicateRequest = "none"
    /\ calls = 0
    /\ argMaxTokens = 0
    /\ previousRequest = "none"
    \* no response assembled
    /\ responses = <<>>
    /\ jobs = <<>>
    /\ usageAtReturn = <<>>
    \* handleChatCompletionStream, not called
    /\ transportErr = ""
    /\ readerPc = "none"
    /\ consumerPc = "none"
    /\ pendingSends = <<>>
    /\ dataChanClosed = FALSE
    /\ received = <<>>
    /\ terminals = <<>>
    /\ linesRead = 0
    \* ChatCompletion and CreateChatCompletion, not called
    /\ chatPc = "none"
    /\ creation = NoCreation
    /\ chatResp = {}
    /\ chatErr = NoError
    /\ predictions = 0
    \* the stream handler, not running
    /\ IsEvent = FALSE
    /\ CurrentEvent = <<>>
    /\ Buffer = <<>>
    /\ EventBuffer = <<>>
    /\ Usage = ZeroUsage
    /\ rawLine = Nil
    /\ line = <<>>
    /\ dataChan = <<>>
    /\ errChan = <<>>
    /\ fetches = 0
    /\ blankRun = 0
    /\ blanksSinceFlush = 0
    /\ payloads = <<>>
    /\ effects = <<>>
    /\ fetched = NoMetrics
    /\ usageAtDone = ZeroUsage
    /\ doneRead = 0
    \* pollResult, not called
    /\ i = 0
    /\ result = [Status |-> "", Error |-> ""]
    /\ pollErr = ""
    /\ returned = FALSE
    /\ fetchCalls = 0
    /\ reported = 0

NextConv == convertFromChatOpenai

SpecConv == InitConv /\ [][NextConv]_vars

(***************************************************************************)
(* Claims on convertFromChatOpenai, checked under SpecConv.                *)
(***************************************************************************)
Max(a, b) == IF a >= b THEN a ELSE b

\* C8: the translated max_tokens is at least 1024, and is exactly 1024 when
\* the value resolved from the primary field and the alias is below 1024.
C8_MaxTokensFloor ==
    calls > 0 =>
        LET resolved == IF argMaxTokens = 0 /\ request.MaxCompletionTokens > 0
                        THEN request.MaxCompletionTokens
                        ELSE argMaxTokens
        IN  /\ replicateRequest.Input.MaxTokens >= 1024
            /\ resolved < 1024 => replicateRequest.Input.MaxTokens = 1024

\* Primary field 1023, one below the floor: translated to 1024
C8_Witness ==
    /\ calls = 1
    /\ argMaxTokens = 1023
    /\ request.MaxCompletionTokens = 2048
    /\ replicateRequest.Input.MaxTokens = 1024

\* C9: with the primary field unset (0) the translated max_tokens is
\* max(alias, 1024); with it set (non-zero) it is max(primary, 1024),
\* whatever the alias.
C9_AliasFallback ==
    calls > 0 =>
        replicateRequest.Input.MaxTokens =
            IF argMaxTokens = 0
            THEN Max(request.MaxCompletionTokens, 1024)
            ELSE Max(argMaxTokens, 1024)

\* Primary field unset, alias 2048: translated to 2048
C9_Witness ==
    /\ calls = 1
    /\ argMaxTokens = 0
    /\ request.MaxCompletionTokens = 2048
    /\ replicateRequest.Input.MaxTokens = 2048

\* The URL of the last image part met scanning the parts in order
RECURSIVE LastImageOfParts(_, _)
LastImageOfParts(parts, url) ==
    IF parts = <<>> THEN url
    ELSE LastImageOfParts(Tail(parts),
             IF Head(parts).Type = "image_url" THEN Head(parts).URL ELSE url)

\* The URL of the last image part met scanning all messages, of any role
RECURSIVE LastImage(_, _)
LastImage(messages, url) ==
    IF messages = <<>> THEN url
    ELSE LastImage(Tail(messages), LastImageOfParts(Head(messages).Content, url))

\* C10: the translated image is the URL of the last image part of all
\* messages, of any role, in their order, and empty when there is none.
C10_ImageLastWins ==
    calls > 0 => replicateRequest.Input.Image = LastImage(request.Messages, "")

\* The text parts of a message's content, concatenated in their order
RECURSIVE TextPartsOf(_)
TextPartsOf(parts) ==
    IF parts = <<>> THEN ""
    ELSE IF Head(parts).Type = "text"
         THEN Head(parts).Text \o TextPartsOf(Tail(parts))
         ELSE TextPartsOf(Tail(parts))

\* The prompt body the claim describes: one block per non-system message
RECURSIVE PromptBody(_)
PromptBody(messages) ==
    IF messages = <<>> THEN ""
    ELSE LET msg == Head(messages)
             block == IF msg.Role = "system" THEN ""
                      ELSE msg.Role \o ": \n" \o TextPartsOf(msg.Content) \o "\n"
         IN  block \o PromptBody(Tail(messages))

\* The system prompt the claim describes: one line per system message
RECURSIVE SystemLines(_)
SystemLines(messages) ==
    IF messages = <<>> THEN ""
    ELSE LET msg == Head(messages)
             block == IF msg.Role = "system"
                      THEN TextPartsOf(msg.Content) \o "\n"
                      ELSE ""
         IN  block \o SystemLines(Tail(messages))

\* C11: the translated prompt is, over the non-system messages in order, the
\* role, ": \n", the message's text parts and "\n", followed by the cue
\* "assistant: \n"; the translated system prompt is, over the system messages
\* in order, the message's text and "\n".
C11_PromptConstruction ==
    calls > 0 =>
        /\ replicateRequest.Input.Prompt =
               PromptBody(request.Messages) \o "assistant: \n"
        /\ replicateRequest.Input.SystemPrompt = SystemLines(request.Messages)

\* A system message and a user message, one text part each
C11_Witness ==
    /\ calls = 1
    /\ Len(request.Messages) = 2
    /\ request.Messages[1].Role = "system"
    /\ request.Messages[2].Role = "user"
    /\ replicateRequest.Input.SystemPrompt = "a\n"
    /\ replicateRequest.Input.Prompt = "user: \nb\nassistant: \n"

\* C12: a call of convertFromChatOpenai leaves the caller's request as it
\* found it, MaxTokens and MaxCompletionTokens included.
C12_RequestUnchanged ==
    [][calls' = calls + 1 => request' = request]_vars

\* C13: the second of two calls in succession on the same request object
\* returns a value equal in every field to the value the first returned.
C13_Idempotent ==
    calls >= 2 => replicateRequest = previousRequest

\* Two calls on a request whose MaxTokens the first call replaced by the alias
C13_Witness ==
    /\ calls = 2
    /\ request.MaxCompletionTokens = 2048
    /\ request.MaxTokens = 2048
    /\ previousRequest.Input.MaxTokens = 2048
    /\ replicateRequest.Input.MaxTokens = 2048
    /\ Len(request.Messages) = 2

(***************************************************************************)
(* ReplicateProvider.convertToChatOpenai, as chat.go:116-152 and as        *)
(* part_001:67-101 have it, and the usage record p.Usage that chat.go      *)
(* shares between the responses and the stream handler of one provider.    *)
(***************************************************************************)
\* The id of the job of the n-th request served
JobID(n) == "job-" \o ToString(n)

\* response.Model of a job and p.ModelName of the provider
JobModel == "meta/llama-job"
ProviderModelName == "meta/llama"

\* response.Output: no fragment, or two fragments
OutputValues == { <<>>, <<"Hel", "lo">> }

\* response.Metrics of a terminal job: absent (the empty set) or one record
JobMetrics ==
    { [InputTokenCount |-> 12, OutputTokenCount |-> 34],
      [InputTokenCount |-> 34, OutputTokenCount |-> 0],
      [InputTokenCount |-> 0, OutputTokenCount |-> 12] }

MetricsValues == { {} } \cup { {m} : m \in JobMetrics }

\* The terminal jobs the n-th request may be assembled from
Jobs(n) ==
    [ID : {JobID(n)}, Model : {JobModel}, Status : {"succeeded"},
     Output : OutputValues, Metrics : MetricsValues]

\* response.Metrics as chat.go reads its fields: a job that reports no
\* metrics decodes to zero counts
MetricsOf(job) ==
    IF job.Metrics = {}
    THEN [InputTokenCount |-> 0, OutputTokenCount |-> 0]
    ELSE CHOOSE m \in job.Metrics : TRUE

\* Mutant: each fragment is put in front of the text gathered so far
RECURSIVE ResponseTextPrepended(_)
ResponseTextPrepended(output) ==
    IF output = <<>> THEN ""
    ELSE ResponseTextPrepended(Tail(output)) \o Head(output)

\* for _, text := range response.Output { responseText += text }
RECURSIVE ResponseText(_)
ResponseText(output) ==
    IF output = <<>> THEN "" ELSE Head(output) \o ResponseText(Tail(output))

\* strings.Join(response.Output, "")
RECURSIVE Join(_, _)
Join(elems, sep) ==
    IF elems = <<>> THEN ""
    ELSE IF Len(elems) = 1 THEN Head(elems)
    ELSE Head(elems) \o sep \o Join(Tail(elems), sep)

\* types.ChatCompletionChoice with the assistant role and finish reason stop
ChatCompletionChoice(responseText) ==
    [Index |-> 0,
     Message |-> [Role |-> ChatMessageRoleAssistant, Content |-> responseText],
     FinishReason |-> FinishReasonStop]

\* The pointer p.Usage, and the record a usage field leads to
ProviderUsage == [Pointer |-> "p.Usage"]
Deref(usage) == IF "Pointer" \in DOMAIN usage THEN Usage ELSE usage

\* Mutant: the total counts the prompt tokens twice
AssembledUsagePromptTwice(metrics) ==
    [PromptTokens |-> metrics.InputTokenCount,
     CompletionTokens |-> metrics.OutputTokenCount,
     TotalTokens |-> metrics.InputTokenCount + metrics.InputTokenCount]

\* p.Usage.PromptTokens = ...; p.Usage.CompletionTokens = ...;
\* p.Usage.TotalTokens = p.Usage.PromptTokens + p.Usage.CompletionTokens
AssembledUsage(metrics) ==
    LET promptTokens == metrics.InputTokenCount
        completionTokens == metrics.OutputTokenCount
    IN  [PromptTokens |-> promptTokens,
         CompletionTokens |-> completionTokens,
         TotalTokens |-> promptTokens + completionTokens]

\* openaiResponse := &types.ChatCompletionResponse{...};
\* openaiResponse.Usage = p.Usage
OpenaiResponse(response) ==
    [ID |-> response.ID,
     Object |-> "chat.completion",
     Choices |-> <<ChatCompletionChoice(ResponseText(response.Output))>>,
     Model |-> response.Model,
     Usage |-> ProviderUsage]

\* chat.go: the response is built, p.Usage is written from the job's metrics
\* and the response's usage field is set to the pointer p.Usage
convertToChatOpenai ==
    /\ Len(responses) < MaxRequests
    /\ \E response \in Jobs(Len(responses) + 1) :
        LET openaiResponse == OpenaiResponse(response)
        IN  /\ Usage' = AssembledUsage(MetricsOf(response))
            /\ responses' = Append(responses, openaiResponse)
            /\ jobs' = Append(jobs, response)
            /\ usageAtReturn' = Append(usageAtReturn, Usage')
    /\ UNCHANGED <<IsEvent, CurrentEvent, Buffer, EventBuffer, rawLine, line,
                   dataChan, errChan, fetches, blankRun, blanksSinceFlush,
                   payloads, effects, fetched, usageAtDone, doneRead>>
    /\ UNCHANGED <<pollVars, convVars, readerVars, chatVars>>

\* Mutant: a job without metrics leaves the response without usage
UsageIfMetrics(metrics) ==
    IF metrics # {}
    THEN LET m == CHOOSE x \in metrics : TRUE
         IN  [PromptTokens |-> m.InputTokenCount,
              CompletionTokens |-> m.OutputTokenCount,
              TotalTokens |-> m.InputTokenCount + m.OutputTokenCount]
    ELSE [Omitted |-> TRUE]

\* if response.Metrics != nil { resp.Usage = types.Usage{...} }: the usage
\* field is a value, all zero when it is not assigned
UsageOrZero(metrics) ==
    IF metrics # {}
    THEN LET m == CHOOSE x \in metrics : TRUE
         IN  [PromptTokens |-> m.InputTokenCount,
              CompletionTokens |-> m.OutputTokenCount,
              TotalTokens |-> m.InputTokenCount + m.OutputTokenCount]
    ELSE ZeroUsage

\* resp := &types.ChatCompletionResponse{...}; resp.Usage = types.Usage{...}
ChatCompletionResponseP1(response) ==
    [ID |-> response.ID,
     Object |-> "chat.completion",
     Model |-> ProviderModelName,
     Choices |-> <<ChatCompletionChoice(Join(response.Output, ""))>>,
     Usage |-> UsageOrZero(response.Metrics)]

\* part_001: the response carries its own usage value; p.Usage is not used
convertToChatOpenaiP1 ==
    /\ Len(responses) < MaxRequests
    /\ \E response \in Jobs(Len(responses) + 1) :
        LET resp == ChatCompletionResponseP1(response)
        IN  /\ responses' = Append(responses, resp)
            /\ jobs' = Append(jobs, response)
            /\ usageAtReturn' = Append(usageAtReturn, resp.Usage)
    /\ UNCHANGED <<streamVars, pollVars, convVars, readerVars, chatVars>>

\* A stream session of the same provider, whose handler holds p.Usage
\* (chat.go:197-203), reads "event: done"
StreamSessionDone ==
    /\ ReadLine(PrefixEventDone)
    /\ UNCHANGED <<pollVars, convVars, provVars, readerVars, chatVars>>

\* A provider that has served no request; its stream handler is built and
\* has read no line
InitProvider ==
    /\ responses = <<>>
    /\ jobs = <<>>
    /\ usageAtReturn = <<>>
    \* the handler and its channels
    /\ IsEvent = FALSE
    /\ CurrentEvent = <<>>
    /\ Buffer = <<>>
    /\ EventBuffer = <<>>
    /\ Usage = ZeroUsage
    /\ rawLine = Nil
    /\ line = <<>>
    /\ dataChan = <<>>
    /\ errChan = <<>>
    /\ fetches = 0
    /\ blankRun = 0
    /\ blanksSinceFlush = 0
    /\ payloads = <<>>
    /\ effects = <<>>
    /\ fetched = NoMetrics
    /\ usageAtDone = ZeroUsage
    /\ doneRead = 0
    \* pollResult, not called
    /\ i = 0
    /\ result = [Status |-> "", Error |-> ""]
    /\ pollErr = ""
    /\ returned = FALSE
    /\ fetchCalls = 0
    /\ reported = 0
    \* convertFromChatOpenai, not called
    /\ request = [MaxTokens |-> 0, MaxCompletionTokens |-> 0, Messages |-> <<>>]
    /\ replicateRequest = "none"
    /\ calls = 0
    /\ argMaxTokens = 0
    /\ previousRequest = "none"
    \* handleChatCompletionStream, not called
    /\ transportErr = ""
    /\ readerPc = "none"
    /\ consumerPc = "none"
    /\ pendingSends = <<>>
    /\ dataChanClosed = FALSE
    /\ received = <<>>
    /\ terminals = <<>>
    /\ linesRead = 0
    \* ChatCompletion and CreateChatCompletion, not called
    /\ chatPc = "none"
    /\ creation = NoCreation
    /\ chatResp = {}
    /\ chatErr = NoError
    /\ predictions = 0

NextProvider == convertToChatOpenai \/ convertToChatOpenaiP1 \/ StreamSessionDone

SpecProvider == InitProvider /\ [][NextProvider]_vars

(***************************************************************************)
(* Claims on the usage record, checked under SpecProvider.                 *)
(***************************************************************************)
\* The usage the claims describe for a job's metrics
ExpectedUsage(metrics) ==
    [PromptTokens |-> metrics.InputTokenCount,
     CompletionTokens |-> metrics.OutputTokenCount,
     TotalTokens |-> metrics.InputTokenCount + metrics.OutputTokenCount]

\* C14: a response assembled from a job with metrics (i, o) carries usage
\* (i, o, i + o) when it is returned; the done branch of a stream session
\* writes usage (i, o, i + o) for the metrics (i, o) it fetched; so for the
\* same metrics the two are equal.
C14_UsageTotals ==
    /\ \A n \in 1..Len(responses) :
          \A m \in jobs[n].Metrics : usageAtReturn[n] = ExpectedUsage(m)
    /\ fetches > 0 => usageAtDone = ExpectedUsage(fetched)
    /\ \A n \in 1..Len(responses) :
          (fetches > 0 /\ jobs[n].Metrics = {fetched})
              => usageAtReturn[n] = usageAtDone

\* A job with metrics (12, 34) assembled by chat.go and a stream session
\* that fetched the same metrics: both usages are (12, 34, 46)
C14_Witness ==
    /\ fetches = 1
    /\ fetched = [InputTokenCount |-> 12, OutputTokenCount |-> 34]
    /\ Len(responses) = 1
    /\ responses[1].Usage = ProviderUsage
    /\ jobs[1].Metrics = {fetched}
    /\ usageAtReturn[1].TotalTokens = 46
    /\ usageAtDone.TotalTokens = 46

\* C15: the usage a returned response carries stays what it was when the
\* response was returned, and the usage a stream session wrote at its end
\* stays what the session wrote, whatever else the provider serves.
C15_UsageIsolated ==
    /\ \A n \in 1..Len(responses) :
          Deref(responses[n].Usage) = usageAtReturn[n]
    /\ fetches > 0 => Usage = usageAtDone

RECURSIVE FragmentsUpTo(_, _)
FragmentsUpTo(output, k) ==
    IF k = 0 THEN "" ELSE FragmentsUpTo(output, k - 1) \o output[k]

\* C22: a response assembled from a succeeded job has the job's id and one
\* choice, with the assistant role, finish reason stop and as content the
\* job's output fragments in their order with nothing between them, the
\* empty string when there is none; by either variant of convertToChatOpenai.
C22_Assembly ==
    \A n \in 1..Len(responses) :
        /\ jobs[n].Status = "succeeded"
        /\ responses[n].ID = jobs[n].ID
        /\ Len(responses[n].Choices) = 1
        /\ responses[n].Choices[1].Message.Role = "assistant"
        /\ responses[n].Choices[1].FinishReason = "stop"
        /\ responses[n].Choices[1].Message.Content =
               FragmentsUpTo(jobs[n].Output, Len(jobs[n].Output))

\* The second job, of two fragments, assembled by chat.go; the first, with
\* no output, by part_001
C22_Witness ==
    /\ Len(responses) = 2
    /\ responses[1].Model = ProviderModelName
    /\ responses[1].Choices[1].Message.Content = ""
    /\ responses[2].Model = JobModel
    /\ responses[2].ID = "job-2"
    /\ responses[2].Choices[1].Message.Content = "Hello"

(***************************************************************************)
(* One stream session up to its end, under either of the two loops that    *)
(* read the transport: requester.RequestStream, which drives the handler   *)
(* of chat.go, and the reader goroutine and consumer loop of               *)
(* handleChatCompletionStream (part_001:249-291).                          *)
(***************************************************************************)
\* What reader.ReadBytes returns when it returns no line
ReadErrors == {"EOF", "read error"}

\* The lines the reader goroutine may read, each with its line break
ReaderLines ==
    { <<"\n">>,
      <<"\r", "\n">>,
      PrefixData \o <<"h","i","\n">>,
      PrefixEvent \o EventOutput \o <<"\n">>,
      PrefixEventDone \o <<"\n">> }

\* What the handler built by NewReplicateStreamHandler sends for a data
\* line: nothing, the content chunk, or the chunk of a pending blank line
\* and then the content chunk, all on dataChan, and nothing on errChan
HandlerSends ==
    { <<>>,
      <<ContentChunk(<<"h","i">>)>>,
      <<NewlineChunk(1), ContentChunk(<<"h","i">>)>> }

\* requester.RequestStream reads a line and hands it to the handler
SessionLine ==
    /\ readerPc = "none"
    /\ transportErr = ""
    /\ RequestStream

\* requester.RequestStream finds the transport ended or broken: the read
\* error is delivered on errChan and the loop returns
TransportEnd ==
    /\ readerPc = "none"
    /\ transportErr = ""
    /\ rawLine # StreamClosed
    /\ \E err \in ReadErrors :
        /\ transportErr' = err
        /\ errChan' = Append(errChan, err)
    /\ UNCHANGED <<IsEvent, CurrentEvent, Buffer, EventBuffer, Usage, rawLine,
                   line, dataChan, fetches, blankRun, blanksSinceFlush,
                   payloads, effects, fetched, usageAtDone, doneRead>>
    /\ UNCHANGED <<readerPc, consumerPc, pendingSends, dataChanClosed,
                   received, terminals, linesRead>>
    /\ UNCHANGED <<pollVars, convVars, provVars, chatVars>>

\* line, err := reader.ReadBytes('\n') returns a line: a line of at most two
\* bytes is skipped, a data line is handed to the handler, any other line
\* is dropped
ReaderReadLine ==
    /\ readerPc = "read"
    /\ linesRead < MaxLines
    /\ linesRead' = linesRead + 1
    /\ \E l \in ReaderLines :
        IF Len(l) <= 2 \/ ~HasPrefix(l, PrefixData)
        THEN UNCHANGED <<readerPc, pendingSends>>
        ELSE \E sends \in HandlerSends :
                /\ pendingSends' = sends
                /\ readerPc' = IF sends = <<>> THEN "read" ELSE "send"
    /\ UNCHANGED <<transportErr, consumerPc, dataChanClosed, received,
                   terminals>>
    /\ UNCHANGED <<streamVars, pollVars, convVars, provVars, chatVars>>

\* Mutant: the goroutine breaks out of the loop after sending the error
ReaderAfterErrorBreak == "close"

\* errChan <- err; return
ReaderAfterError == "exit"

\* Mutant: the goroutine returns at io.EOF without closing dataChan
ReaderAfterEOFReturn == "exit"

\* if err == io.EOF { break }: the statement after the loop is close(dataChan)
ReaderAfterEOF == "close"

\* reader.ReadBytes returns an error: io.EOF breaks out of the loop, any
\* other error is to be sent on errChan
ReaderReadError ==
    /\ readerPc = "read"
    /\ \E err \in ReadErrors :
        /\ transportErr' = err
        /\ readerPc' = IF err = "EOF" THEN ReaderAfterEOF ELSE "sendErr"
    /\ UNCHANGED <<consumerPc, pendingSends, dataChanClosed, received,
                   terminals, linesRead>>
    /\ UNCHANGED <<streamVars, pollVars, convVars, provVars, chatVars>>

\* close(dataChan), the goroutine's last statement
ReaderClose ==
    /\ readerPc = "close"
    /\ dataChanClosed' = TRUE
    /\ readerPc' = "exit"
    /\ UNCHANGED <<transportErr, consumerPc, pendingSends, received,
                   terminals, linesRead>>
    /\ UNCHANGED <<streamVars, pollVars, convVars, provVars, chatVars>>

\* The handler's send on the unbuffered dataChan meets the consumer's
\* case data, ok := <-dataChan: buffer.WriteString(data)
DataRendezvous ==
    /\ readerPc = "send"
    /\ consumerPc = "select"
    /\ received' = Append(received, Head(pendingSends))
    /\ pendingSends' = Tail(pendingSends)
    /\ readerPc' = IF Tail(pendingSends) = <<>> THEN "read" ELSE "send"
    /\ UNCHANGED <<transportErr, consumerPc, dataChanClosed, terminals,
                   linesRead>>
    /\ UNCHANGED <<streamVars, pollVars, convVars, provVars, chatVars>>

\* The goroutine's errChan <- err meets the consumer's case err := <-errChan:
\* the consumer returns the wrapped error
ErrRendezvous ==
    /\ readerPc = "sendErr"
    /\ consumerPc = "select"
    /\ terminals' = Append(terminals, "error")
    /\ consumerPc' = "returned"
    /\ readerPc' = ReaderAfterError
    /\ UNCHANGED <<transportErr, pendingSends, dataChanClosed, received,
                   linesRead>>
    /\ UNCHANGED <<streamVars, pollVars, convVars, provVars, chatVars>>

\* case data, ok := <-dataChan with the channel closed: return nil
ConsumerClosed ==
    /\ consumerPc = "select"
    /\ dataChanClosed
    /\ terminals' = Append(terminals, "end-of-stream")
    /\ consumerPc' = "returned"
    /\ UNCHANGED <<transportErr, readerPc, pendingSends, dataChanClosed,
                   received, linesRead>>
    /\ UNCHANGED <<streamVars, pollVars, convVars, provVars, chatVars>>

\* A session about to read its first line, under one loop or the other
InitSession ==
    \* requester.RequestStream, or the goroutine started and the consumer
    \* at its select
    /\ \/ readerPc = "none" /\ consumerPc = "none"
       \/ readerPc = "read" /\ consumerPc = "select"
    /\ transportErr = ""
    /\ pendingSends = <<>>
    /\ dataChanClosed = FALSE
    /\ received = <<>>
    /\ terminals = <<>>
    /\ linesRead = 0
    \* ChatCompletion and CreateChatCompletion, not called
    /\ chatPc = "none"
    /\ creation = NoCreation
    /\ chatResp = {}
    /\ chatErr = NoError
    /\ predictions = 0
    \* the handler and its channels
    /\ IsEvent = FALSE
    /\ CurrentEvent = <<>>
    /\ Buffer = <<>>
    /\ EventBuffer = <<>>
    /\ Usage = ZeroUsage
    /\ rawLine = Nil
    /\ line = <<>>
    /\ dataChan = <<>>
    /\ errChan = <<>>
    /\ fetches = 0
    /\ blankRun = 0
    /\ blanksSinceFlush = 0
    /\ payloads = <<>>
    /\ effects = <<>>
    /\ fetched = NoMetrics
    /\ usageAtDone = ZeroUsage
    /\ doneRead = 0
    \* pollResult, not called
    /\ i = 0
    /\ result = [Status |-> "", Error |-> ""]
    /\ pollErr = ""
    /\ returned = FALSE
    /\ fetchCalls = 0
    /\ reported = 0
    \* convertFromChatOpenai, not called
    /\ request = [MaxTokens |-> 0, MaxCompletionTokens |-> 0, Messages |-> <<>>]
    /\ replicateRequest = "none"
    /\ calls = 0
    /\ argMaxTokens = 0
    /\ previousRequest = "none"
    \* no response assembled
    /\ responses = <<>>
    /\ jobs = <<>>
    /\ usageAtReturn = <<>>

NextSession ==
    \/ SessionLine
    \/ TransportEnd
    \/ ReaderReadLine
    \/ ReaderReadError
    \/ ReaderClose
    \/ DataRendezvous
    \/ ErrRendezvous
    \/ ConsumerClosed

SpecSession == InitSession /\ [][NextSession]_vars

\* handleChatCompletionStream alone, from the start of its goroutine
InitReader ==
    \* the goroutine is started and the consumer is at its select
    /\ readerPc = "read"
    /\ consumerPc = "select"
    /\ transportErr = ""
    /\ pendingSends = <<>>
    /\ dataChanClosed = FALSE
    /\ received = <<>>
    /\ terminals = <<>>
    /\ linesRead = 0
    \* ChatCompletion and CreateChatCompletion, not called
    /\ chatPc = "none"
    /\ creation = NoCreation
    /\ chatResp = {}
    /\ chatErr = NoError
    /\ predictions = 0
    \* the handler and its channels
    /\ IsEvent = FALSE
    /\ CurrentEvent = <<>>
    /\ Buffer = <<>>
    /\ EventBuffer = <<>>
    /\ Usage = ZeroUsage
    /\ rawLine = Nil
    /\ line = <<>>
    /\ dataChan = <<>>
    /\ errChan = <<>>
    /\ fetches = 0
    /\ blankRun = 0
    /\ blanksSinceFlush = 0
    /\ payloads = <<>>
    /\ effects = <<>>
    /\ fetched = NoMetrics
    /\ usageAtDone = ZeroUsage
    /\ doneRead = 0
    \* pollResult, not called
    /\ i = 0
    /\ result = [Status |-> "", Error |-> ""]
    /\ pollErr = ""
    /\ returned = FALSE
    /\ fetchCalls = 0
    /\ reported = 0
    \* convertFromChatOpenai, not called
    /\ request = [MaxTokens |-> 0, MaxCompletionTokens |-> 0, Messages |-> <<>>]
    /\ replicateRequest = "none"
    /\ calls = 0
    /\ argMaxTokens = 0
    /\ previousRequest = "none"
    \* no response assembled
    /\ responses = <<>>
    /\ jobs = <<>>
    /\ usageAtReturn = <<>>

NextReader ==
    \/ ReaderReadLine
    \/ ReaderReadError
    \/ ReaderClose
    \/ DataRendezvous
    \/ ErrRendezvous
    \/ ConsumerClosed

SpecReader == InitReader /\ [][NextReader]_vars

\* reader.ReadBytes returns, with a line or an error, and the Go scheduler
\* runs a goroutine that can take a step: a step that stays possible is taken
FairSpecReader == SpecReader /\ WF_vars(NextReader)

(***************************************************************************)
(* Claims on the end of a session, checked under SpecSession.              *)
(***************************************************************************)
\* C18: the consumer receives at most one terminal signal, and exactly one
\* once the session is over.  Under requester.RequestStream the signals are
\* what errChan carries, and the handler sends io.EOF there at most once;
\* under handleChatCompletionStream they are the closing of dataChan and
\* the error on errChan, of which the goroutine produces one and never both.
C18_OneTerminalSignal ==
    /\ readerPc = "none" =>
          /\ Len(errChan) <= 1
          /\ (doneRead > 0 \/ transportErr # "") => Len(errChan) = 1
          /\ CountOf(effects, "EOF") <= 1
    /\ readerPc # "none" =>
          /\ Len(terminals) <= 1
          /\ (consumerPc = "returned") = (Len(terminals) = 1)
          /\ ~(dataChanClosed /\ terminals = <<"error">>)
          /\ readerPc = "exit" =>
                (dataChanClosed \/ terminals = <<"error">>)

\* The consumer of handleChatCompletionStream received a chunk and then the
\* read error, and the goroutine has returned without closing dataChan
C18_Witness ==
    /\ readerPc = "exit"
    /\ consumerPc = "returned"
    /\ transportErr = "read error"
    /\ terminals = <<"error">>
    /\ Len(received) = 1
    /\ ~dataChanClosed

(***************************************************************************)
(* The non-streaming call: ChatCompletion of part_001 and                  *)
(* CreateChatCompletion of chat.go.  The job is created with one HTTP      *)
(* call; part_001 then polls with pollResult unless the creation response  *)
(* already reports "succeeded", chat.go hands the job to getPrediction.    *)
(* The request has Stream unset: the streaming branch of part_001 is the   *)
(* session modelled above.                                                 *)
(***************************************************************************)
\* http.StatusInternalServerError
StatusInternalServerError == 500

\* resp.StatusCode of the creation response, and its body when the call is
\* refused
StatusCodes == {200, 201, 202, 422, 500}
Bodies == {"", "invalid input"}

\* The err of client.Do on a transport failure
TransportErrorText == "connection refused"

\* common.ErrorWrapper(err, code, statusCode)
ErrorWrapper(err, code, statusCode) ==
    [Message |-> err, Type |-> "one_hub_error", Code |-> code,
     StatusCode |-> statusCode]

\* resp.StatusCode != http.StatusOK && != http.StatusCreated &&
\* != http.StatusAccepted, negated
IsSuccessStatus(code) == code = 200 \/ code = 201 \/ code = 202

\* fmt.Sprintf("API request error, status: %d, message: %s", ...)
StatusMessage(code, body) ==
    "API request error, status: " \o ToString(code) \o ", message: " \o body

\* Mutant: the error of a refused call always has the status code 500
StatusErrorInternal(code, body) ==
    [Message |-> StatusMessage(code, body), Type |-> "replicate_error",
     Code |-> "", StatusCode |-> StatusInternalServerError]

\* &types.OpenAIErrorWithStatusCode{OpenAIError{Message, Type}, StatusCode}
StatusError(code, body) ==
    [Message |-> StatusMessage(code, body), Type |-> "replicate_error",
     Code |-> "", StatusCode |-> code]

\* The errWithCode of p.Requester.SendRequest: for a refused call it carries
\* the backend's status code and body, for a transport failure the error of
\* the transport
RequesterSendError(outcome, code, body) ==
    IF outcome = "refused"
    THEN [Message |-> body, Type |-> "replicate_error", Code |-> "",
          StatusCode |-> code]
    ELSE ErrorWrapper(TransportErrorText, "http_request_failed",
                      StatusInternalServerError)

\* The job a creation response decodes to: a finished job has its output
\* and metrics, any other job has none yet
CreationJobs ==
    Jobs(1) \cup
    [ID : {JobID(1)}, Model : {JobModel},
     Status : Statuses \ {"succeeded"}, Output : {<<>>}, Metrics : {{}}]

\* Mutant: the job is polled whatever its status
NeedsPollingAlways(status) == TRUE

\* if replicateResp.Status != "succeeded"
NeedsPolling(status) == status # "succeeded"

\* A call returns its error and no response
ReturnError(err) ==
    /\ chatErr' = err
    /\ chatResp' = {}
    /\ chatPc' = "returned"

\* ChatCompletion up to the test of the creation response's status
ChatCompletionSubmit ==
    /\ chatPc = "submit"
    /\ \/ \* json.Marshal fails
          /\ creation' = [NoCreation EXCEPT !.Path = "ChatCompletion",
                                            !.Outcome = "marshal error"]
          /\ ReturnError(ErrorWrapper("json marshal error",
                         "json_marshal_error", StatusInternalServerError))
       \/ \* http.NewRequest fails
          /\ creation' = [NoCreation EXCEPT !.Path = "ChatCompletion",
                                            !.Outcome = "request error"]
          /\ ReturnError(ErrorWrapper("http.NewRequest error",
                         "create_request_error", StatusInternalServerError))
       \/ \* client.Do fails
          /\ creation' = [NoCreation EXCEPT !.Path = "ChatCompletion",
                                            !.Outcome = "transport error"]
          /\ ReturnError(ErrorWrapper(TransportErrorText,
                         "send_request_error", StatusInternalServerError))
       \/ \* the status code is none of 200, 201, 202
          \E code \in StatusCodes, body \in Bodies :
            /\ ~IsSuccessStatus(code)
            /\ creation' = [Path |-> "ChatCompletion", Outcome |-> "refused",
                            StatusCode |-> code, Body |-> body, Job |-> {}]
            /\ ReturnError(StatusError(code, body))
       \/ \* the body does not decode
          \E code \in StatusCodes :
            /\ IsSuccessStatus(code)
            /\ creation' = [Path |-> "ChatCompletion",
                            Outcome |-> "decode error",
                            StatusCode |-> code, Body |-> "", Job |-> {}]
            /\ ReturnError(ErrorWrapper("json decode error", "decode_error",
                                        StatusInternalServerError))
       \/ \* the body decodes into replicateResp
          \E code \in StatusCodes, replicateResp \in CreationJobs :
            /\ IsSuccessStatus(code)
            /\ creation' = [Path |-> "ChatCompletion", Outcome |-> "decoded",
                            StatusCode |-> code, Body |-> "",
                            Job |-> {replicateResp}]
            /\ IF NeedsPolling(replicateResp.Status)
               THEN /\ chatPc' = "polling"
                    /\ UNCHANGED <<chatResp, chatErr>>
               ELSE /\ chatPc' = "returned"
                    /\ chatResp' = {ChatCompletionResponseP1(replicateResp)}
                    /\ chatErr' = NoError
    /\ UNCHANGED predictions
    /\ UNCHANGED <<streamVars, pollVars, convVars, provVars, readerVars>>

\* replicateResp, err = p.pollResult(replicateResp.ID, apiKey), one pass
ChatCompletionPoll ==
    /\ chatPc = "polling"
    /\ NextPoll

\* pollResult has returned: its error is wrapped, or its result, which has
\* the output and the metrics of the finished job, is converted
ChatCompletionReturn ==
    /\ chatPc = "polling"
    /\ returned
    /\ chatPc' = "returned"
    /\ IF pollErr # ""
       THEN /\ chatErr' = ErrorWrapper(pollErr, "polling_error",
                                       StatusInternalServerError)
            /\ chatResp' = {}
       ELSE \E replicateResp \in Jobs(1) :
            /\ chatResp' = {ChatCompletionResponseP1(replicateResp)}
            /\ chatErr' = NoError
    /\ UNCHANGED <<creation, predictions>>
    /\ UNCHANGED <<streamVars, pollVars, convVars, provVars, readerVars>>

\* getPrediction(p, replicateResponse): the finished job, or an error
PredictionErrors == {"prediction failed", "prediction timeout"}

\* CreateChatCompletion of chat.go, from its entry to its return
CreateChatCompletion ==
    /\ chatPc = "create"
    /\ \/ \* p.GetFullRequestURL returns ""
          /\ creation' = [NoCreation EXCEPT !.Path = "CreateChatCompletion",
                                            !.Outcome = "no url"]
          /\ ReturnError(ErrorWrapper("", "invalid_recraft_config",
                                      StatusInternalServerError))
          /\ UNCHANGED <<predictions, Usage>>
       \/ \* p.Requester.NewRequest fails
          /\ creation' = [NoCreation EXCEPT !.Path = "CreateChatCompletion",
                                            !.Outcome = "request error"]
          /\ ReturnError(ErrorWrapper("NewRequest error",
                         "new_request_failed", StatusInternalServerError))
          /\ UNCHANGED <<predictions, Usage>>
       \/ \* p.Requester.SendRequest fails in transport
          /\ creation' = [NoCreation EXCEPT !.Path = "CreateChatCompletion",
                                            !.Outcome = "transport error"]
          /\ ReturnError(RequesterSendError("transport error", 0, ""))
          /\ UNCHANGED <<predictions, Usage>>
       \/ \* p.Requester.SendRequest is refused by the backend
          \E code \in StatusCodes, body \in Bodies :
            /\ ~IsSuccessStatus(code)
            /\ creation' = [Path |-> "CreateChatCompletion",
                            Outcome |-> "refused",
                            StatusCode |-> code, Body |-> body, Job |-> {}]
            /\ ReturnError(RequesterSendError("refused", code, body))
            /\ UNCHANGED <<predictions, Usage>>
       \/ \* the job is created and getPrediction fails
          \E code \in StatusCodes, replicateResponse \in CreationJobs,
             err \in PredictionErrors :
            /\ IsSuccessStatus(code)
            /\ creation' = [Path |-> "CreateChatCompletion",
                            Outcome |-> "decoded",
                            StatusCode |-> code, Body |-> "",
                            Job |-> {replicateResponse}]
            /\ predictions' = predictions + 1
            /\ ReturnError(ErrorWrapper(err, "prediction_failed",
                                        StatusInternalServerError))
            /\ UNCHANGED Usage
       \/ \* the job is created and getPrediction returns it finished
          \E code \in StatusCodes, replicateResponse \in CreationJobs,
             finished \in Jobs(1) :
            /\ IsSuccessStatus(code)
            /\ replicateResponse.Status = "succeeded"
                  => finished = replicateResponse
            /\ creation' = [Path |-> "CreateChatCompletion",
                            Outcome |-> "decoded",
                            StatusCode |-> code, Body |-> "",
                            Job |-> {replicateResponse}]
            /\ predictions' = predictions + 1
            /\ Usage' = AssembledUsage(MetricsOf(finished))
            /\ chatResp' = {OpenaiResponse(finished)}
            /\ chatErr' = NoError
            /\ chatPc' = "returned"
    /\ UNCHANGED <<IsEvent, CurrentEvent, Buffer, EventBuffer, rawLine, line,
                   dataChan, errChan, fetches, blankRun, blanksSinceFlush,
                   payloads, effects, fetched, usageAtDone, doneRead>>
    /\ UNCHANGED <<pollVars, convVars, provVars, readerVars>>

\* One of the two functions has been called with a translated request and
\* has made no HTTP call yet; pollResult, when it is entered, starts with
\* var result and i := 0
InitChat ==
    /\ chatPc \in {"submit", "create"}
    /\ creation = NoCreation
    /\ chatResp = {}
    /\ chatErr = NoError
    /\ predictions = 0
    \* pollResult at its entry
    /\ i = 0
    /\ result = [Status |-> "", Error |-> ""]
    /\ pollErr = ""
    /\ returned = FALSE
    /\ fetchCalls = 0
    /\ reported = 0
    \* the stream handler, not running
    /\ IsEvent = FALSE
    /\ CurrentEvent = <<>>
    /\ Buffer = <<>>
    /\ EventBuffer = <<>>
    /\ Usage = ZeroUsage
    /\ rawLine = Nil
    /\ line = <<>>
    /\ dataChan = <<>>
    /\ errChan = <<>>
    /\ fetches = 0
    /\ blankRun = 0
    /\ blanksSinceFlush = 0
    /\ payloads = <<>>
    /\ effects = <<>>
    /\ fetched = NoMetrics
    /\ usageAtDone = ZeroUsage
    /\ doneRead = 0
    \* convertFromChatOpenai, not called
    /\ request = [MaxTokens |-> 0, MaxCompletionTokens |-> 0, Messages |-> <<>>]
    /\ replicateRequest = "none"
    /\ calls = 0
    /\ argMaxTokens = 0
    /\ previousRequest = "none"
    \* convertToChatOpenai, not called
    /\ responses = <<>>
    /\ jobs = <<>>
    /\ usageAtReturn = <<>>
    \* handleChatCompletionStream, not called
    /\ transportErr = ""
    /\ readerPc = "none"
    /\ consumerPc = "none"
    /\ pendingSends = <<>>
    /\ dataChanClosed = FALSE
    /\ received = <<>>
    /\ terminals = <<>>
    /\ linesRead = 0

NextChat ==
    \/ ChatCompletionSubmit
    \/ ChatCompletionPoll
    \/ ChatCompletionReturn
    \/ CreateChatCompletion

SpecChat == InitChat /\ [][NextChat]_vars

(***************************************************************************)
(* Claims on the non-streaming call, checked under SpecChat.               *)
(***************************************************************************)
\* The creation call failed in transport, or the backend refused it
SubmissionFailed ==
    creation.Outcome = "transport error" \/ creation.Outcome = "refused"

\* No status fetch and no poll was made, and no response is returned
NothingAfterSubmission ==
    /\ chatResp = {}
    /\ fetchCalls = 0
    /\ i = 0
    /\ ~returned
    /\ predictions = 0

\* The error is the one the function builds from the backend's status code
\* and body
CarriesStatusAndBody(err) ==
    /\ err.StatusCode = creation.StatusCode
    /\ err.Message =
          IF creation.Path = "ChatCompletion"
          THEN StatusMessage(creation.StatusCode, creation.Body)
          ELSE creation.Body

Decoded ==
    creation.Path = "ChatCompletion" /\ creation.Outcome = "decoded"

CreatedJob == CHOOSE job \in creation.Job : TRUE

\* If the creation response reports "succeeded", no status fetch is ever
\* made, pollResult is not entered, and the response is the conversion of
\* the creation response
SucceededAtCreation ==
    (Decoded /\ CreatedJob.Status = "succeeded") =>
        /\ chatPc = "returned"
        /\ fetchCalls = 0
        /\ i = 0
        /\ ~returned
        /\ chatErr = NoError
        /\ chatResp = {ChatCompletionResponseP1(CreatedJob)}

\* C29 as stated: polling is entered only when the creation response is not
\* "succeeded", and for any other initial status at least one status fetch
\* is made before the outcome is decided.
C29_Original ==
    /\ SucceededAtCreation
    /\ (Decoded /\ CreatedJob.Status # "succeeded" /\ chatPc = "returned") =>
          /\ returned
          /\ fetchCalls >= 1

\* C29: polling is entered only when the creation response is not
\* "succeeded": a creation response that reports "succeeded" is converted
\* with zero status fetches; for any other initial status pollResult runs
\* before the outcome is decided, and it makes at least one status fetch
\* unless building its first fetch request fails.
C29_PollingEntered ==
    /\ SucceededAtCreation
    /\ ~Decoded => (fetchCalls = 0 /\ ~returned)
    /\ (Decoded /\ CreatedJob.Status # "succeeded" /\ chatPc = "returned") =>
          /\ returned
          /\ fetchCalls >= 1 \/ pollErr = "http.NewRequest error"

\* A job created as "failed" was polled once, reported "succeeded", and the
\* response was returned
C29_Witness ==
    /\ chatPc = "returned"
    /\ Decoded
    /\ CreatedJob.Status = "failed"
    /\ fetchCalls = 1
    /\ result.Status = "succeeded"
    /\ chatErr = NoError
    /\ chatResp # {}

(***************************************************************************)
(* Claim on the goroutine and the consumer of handleChatCompletionStream,  *)
(* checked under FairSpecReader.                                           *)
(***************************************************************************)
\* The consumer has returned and the goroutine has ended
BothEnded == consumerPc = "returned" /\ readerPc = "exit"

\* What the consumer returns for the way the transport ended
ReturnFor(err) == IF err = "EOF" THEN <<"end-of-stream">> ELSE <<"error">>

\* C24: whatever lines are read and however the reading ends, the consumer
\* loop returns, once, with nil when the transport reached end-of-file and
\* with an error when a read failed otherwise; the goroutine ends too, and
\* it is never left at a channel send once the consumer has returned.
C24_ReaderConsumerLiveness ==
    /\ <>BothEnded
    /\ [](Len(terminals) <= 1)
    /\ [](consumerPc = "returned" =>
            /\ terminals = ReturnFor(transportErr)
            /\ readerPc \notin {"send", "sendErr"})
    /\ [](BothEnded => pendingSends = <<>>)

\* The transport reached end-of-file after two chunks were received: the
\* goroutine closed dataChan and ended, the consumer returned nil
C24_Witness ==
    /\ BothEnded
    /\ transportErr = "EOF"
    /\ terminals = <<"end-of-stream">>
    /\ dataChanClosed
    /\ Len(received) = 2

====
